---- MODULE Spec2Model ----
(***************************************************************************)
(* A model of async-mmap-file: the FileMap registry (src/src/file_map.rs), *)
(* the Bucket namespace with its per-key locks (src/src/bucket.rs,         *)
(* src/src/locked_file.rs), the MmapFile handle (src/src/mmap_file.rs) and *)
(* the polling of raw reads and writes (src/src/file.rs).                  *)
(*                                                                         *)
(* FileMap guards its two tables with std::sync::Mutex, which blocks the   *)
(* calling thread.  Tasks are therefore placed on worker threads: a task   *)
(* that is inside a synchronous stretch of code (between two .await        *)
(* suspensions) occupies its worker, and no other task of that worker      *)
(* runs until the stretch reaches its next suspension or its return.       *)
(***************************************************************************)
EXTENDS Integers, FiniteSets, Sequences, TLC

Tasks == {1, 2, 3}
Paths == {"a", "b"}
NoT == 0
NoP == "-"
NoH == [id |-> 0, path |-> NoP, ver |-> 0]

\* Cap on the number of writes made through Writer handles to one file.
MaxWrites == 1

\* A mapping (the Arc<Mmap> behind a MmapFile and its clones) is named by
\* who shares it: CachedId while the cache of its path holds a share, else
\* the smallest task that holds one.  NewId names a mapping just created.
CachedId == 10
NewId == 11

VARIABLES
    worker,        \* worker[t]: the thread that polls task t
    scope,         \* scope[t]: the paths (keys, child names) task t passes to its calls
    pc,            \* pc[t]: position of task t inside its current call
    op,            \* op[t]: the call task t makes (or made last)
    tpath,         \* tpath[t]: the path argument of that call
    res,           \* res[t]: how the last call of t ended
    rh,            \* rh[t]: the MmapFile handle the caller t holds
    wh,            \* wh[t]: the path of the Writer handle the caller t holds
    loc,           \* loc[t]: the local `f` of remove_blocking
    callVer,       \* callVer[t]: file version seen when t issued its get
    cache,         \* FileMap.files: path -> cached MmapFile
    wflag,         \* FileMap.writers: path -> entry present
    filesOwner,    \* holder of the FileMap.files mutex
    writersOwner,  \* holder of the FileMap.writers mutex
    exists,        \* exists[p]: the file is on disk
    fileVer,       \* fileVer[p]: version of the content on disk
    opensSince,    \* opensSince[p]: opens made by get since the last eviction of p
    fresh,         \* fresh[t]: rh[t] came from get and its path was not evicted since
    evicted        \* evicted[t]: t's try_writer in progress removed a cache entry

fmvars == <<worker, scope, pc, op, tpath, res, rh, wh, loc, callVer, cache, wflag,
            filesOwner, writersOwner, exists, fileVer, opensSince, fresh, evicted>>

Keys == {"k", "j"}
Names == {"x"}
NoG == [key |-> NoP, gen |-> 0, mode |-> "-"]

\* Cap on the lock objects made for one key, and on the Bucket values
\* constructed for one child name.
MaxLockGen == 3
MaxBuckets == 2

VARIABLES
    bpc,           \* bpc[t]: position of task t inside its Bucket call
    bop,           \* bop[t]: the Bucket call task t makes
    barg,          \* barg[t]: its `name` argument (a key or a child name)
    bres,          \* bres[t]: how the call ended
    bret,          \* bret[t]: the child instance a bucket call returned
    lk,            \* lk[t]: the local `lock` (a clone of the key's FileLock)
    held,          \* held[t]: the guard of a key lock that task t holds
    locks,         \* Bucket.files: key -> the lock object of its entry (0: none)
    fexists,       \* fexists[k]: the file path.join(k) is on disk
    children,      \* Bucket.buckets: name -> child instance (0: none)
    created,       \* created[n]: Bucket::new calls made for child n
    wrote,         \* wrote[k]: 0 no write call was made on k through the bucket,
                   \*   1 one was made, 2 one has succeeded and released its guard
    seen           \* seen[t]: t's read call began after a write of its key succeeded

bvars == <<bpc, bop, barg, bres, bret, lk, held, locks, fexists, children, created,
           wrote, seen>>

\* Cap on the length of the mapped file and on the length of a caller's
\* buffer; the page size that caps one poll_read, scaled to these lengths.
MaxFile == 3
MaxBuf == 3
PAGE_SIZE == 2
\* Cap on the clones of the handle that are alive beside it.
MaxClones == 1
\* usize arithmetic is modulo 2^w; w is scaled like the lengths.
UsizeMod == 1024

VARIABLES
    hstate,        \* the MmapFile handle: "none", "open", or "dead" once a call on
                   \*   it unwound (panic) or the process took a SIGBUS
    write,         \* MmapFile.write
    offset,        \* MmapFile.offset, the cursor
    mlen,          \* MmapFile.m.len(): length of the mapping
    reqWrite,      \* the handle was opened with write(true) / create(true)
    clones,        \* live clones of the handle (shares of MmapFile.f beside it)
    fileThere,     \* the file of the handle's path exists
    flen,          \* length of that file on disk
    fpos,          \* position of the descriptor MmapFile.f
    mres,          \* result of the last call on the handle
    mn,            \* byte count returned by the last call
    mcall,         \* the method that the last call on the handle was of
    overflowChecks \* the build panics on integer overflow (debug) or wraps

mvars == <<hstate, write, offset, mlen, reqWrite, clones, fileThere, flen, fpos,
           mres, mn, mcall, overflowChecks>>

VARIABLES
    ipc,           \* ipc[t]: where t's raw read or write stands: "idle",
                   \*   "runnable" (the executor will poll it), "pending"
                   \*   (poll returned Poll::Pending), "done"
    iop,           \* iop[t]: the operation t awaits
    ires,          \* ires[t]: what the operation returned
    fdReady,       \* fdReady[t]: the descriptor of t's handle would not block
    waker          \* waker[t]: a waker of t is registered for the descriptor

pvars == <<ipc, iop, ires, fdReady, waker>>

\* The most that File::poll_read asks of one pread64 (8192 bytes), scaled to
\* the modelled file lengths.
FileReadMax == 2

VARIABLES
    rkind,         \* the raw reader: "none", "LockedFileRead" or "File"
    index,         \* LockedFileRead.index / File.offset: where the next pread64 reads
    rlen,          \* length of the file behind the reader's descriptor
    rbuf,          \* length of the buffer that the last read call was given
    rgot,          \* bytes that the pread64 of the last read call returned
    rrep,          \* bytes that the last read call reported to its caller
    rres           \* result of the last read call

rvars == <<rkind, index, rlen, rbuf, rgot, rrep, rres>>

vars == <<fmvars, bvars, mvars, pvars, rvars>>

\* What the FileMap methods, and what the Bucket methods, do not touch.
outsideFileMap == <<bvars, mvars, pvars, rvars>>
outsideBucket == <<fmvars, mvars, pvars, rvars>>

-----------------------------------------------------------------------------
(* Scheduling *)

\* Positions inside a synchronous stretch: the task is on its worker's CPU.
SyncPcs == {"g1", "g2", "g3", "tw1", "tw2", "tw_rb", "dw", "rm", "rb1", "rb_chk"}

OnCpu(w) == {u \in Tasks : worker[u] = w /\ pc[u] \in SyncPcs}

\* Task t can take a step: its worker polls nobody else.
Sched(t) == OnCpu(worker[t]) \subseteq {t}

-----------------------------------------------------------------------------
(* MmapFile handles *)

\* Two handles are clones of one MmapFile (they share its Arcs).
SameMap(g, h) == g # NoH /\ g.id = h.id /\ g.path = h.path

\* MmapFile::reader_count: the number of live shares of the mapping.
ReaderCount(h) ==
    Cardinality({t \in Tasks : SameMap(rh[t], h)})
    + Cardinality({t \in Tasks : SameMap(loc[t], h)})
    + Cardinality({p \in Paths : SameMap(cache[p], h)})

\* MmapFile::open / from_file: a new mapping of the file's current content.
MmapOpen(p) == [id |-> NewId, path |-> p, ver |-> fileVer[p]]

\* The name of the mapping behind h once the handles are as in r, l, c.
NameOf(r, l, c, h) ==
    IF h = NoH THEN NoH
    ELSE IF SameMap(c[h.path], h) THEN [h EXCEPT !.id = CachedId]
    ELSE LET holders == {t \in Tasks : SameMap(r[t], h) \/ SameMap(l[t], h)}
         IN  [h EXCEPT !.id = CHOOSE t \in holders : \A u \in holders : t <= u]

\* The handles become r (callers), l (remove_blocking locals), c (cache).
Handles(r, l, c) ==
    /\ rh' = [t \in Tasks |-> NameOf(r, l, c, r[t])]
    /\ loc' = [t \in Tasks |-> NameOf(r, l, c, l[t])]
    /\ cache' = [p \in Paths |-> NameOf(r, l, c, c[p])]

\* The path p loses its cache entry: nothing handed out before is fresh.
Evicted(p) ==
    /\ opensSince' = [opensSince EXCEPT ![p] = 0]
    /\ fresh' = [t \in Tasks |-> fresh[t] /\ rh[t].path # p]

-----------------------------------------------------------------------------
(* Initial state: FileMap::new() *)

\* Three tasks contend for one path, or two tasks work on two paths.
Scopes == {[t \in Tasks |-> {"a"}],
           [t \in Tasks |-> IF t <= 2 THEN Paths ELSE {}]}

\* The registry is empty and no file exists yet.
InitFileMap ==
    /\ pc = [t \in Tasks |-> "idle"]
    /\ op = [t \in Tasks |-> "none"]
    /\ tpath = [t \in Tasks |-> NoP]
    /\ res = [t \in Tasks |-> "none"]
    /\ rh = [t \in Tasks |-> NoH]
    /\ wh = [t \in Tasks |-> NoP]
    /\ loc = [t \in Tasks |-> NoH]
    /\ callVer = [t \in Tasks |-> 0]
    /\ cache = [p \in Paths |-> NoH]
    /\ wflag = [p \in Paths |-> FALSE]
    /\ filesOwner = NoT
    /\ writersOwner = NoT
    /\ exists = [p \in Paths |-> FALSE]
    /\ fileVer = [p \in Paths |-> 0]
    /\ opensSince = [p \in Paths |-> 0]
    /\ fresh = [t \in Tasks |-> FALSE]
    /\ evicted = [t \in Tasks |-> FALSE]

\* Bucket::new: both tables are empty.
InitBucket ==
    /\ bpc = [t \in Tasks |-> "idle"]
    /\ bop = [t \in Tasks |-> "none"]
    /\ barg = [t \in Tasks |-> NoP]
    /\ bres = [t \in Tasks |-> "none"]
    /\ bret = [t \in Tasks |-> 0]
    /\ lk = [t \in Tasks |-> 0]
    /\ held = [t \in Tasks |-> NoG]
    /\ locks = [k \in Keys |-> 0]
    /\ children = [n \in Names |-> 0]
    /\ created = [n \in Names |-> 0]
    /\ wrote = [k \in Keys |-> 0]
    /\ seen = [t \in Tasks |-> FALSE]

\* No MmapFile handle is open.
InitHandle ==
    /\ hstate = "none"
    /\ write = FALSE
    /\ offset = 0
    /\ mlen = 0
    /\ reqWrite = FALSE
    /\ clones = 0
    /\ fpos = 0
    /\ mres = "none"
    /\ mn = 0
    /\ mcall = "none"

\* No file to map yet.
InitMmap ==
    /\ InitHandle
    /\ fileThere = FALSE
    /\ flen = 0
    /\ overflowChecks = TRUE

\* No raw read or write is in progress.
InitPoll ==
    /\ ipc = [t \in Tasks |-> "idle"]
    /\ iop = [t \in Tasks |-> "none"]
    /\ ires = [t \in Tasks |-> "none"]
    /\ fdReady = [t \in Tasks |-> TRUE]
    /\ waker = [t \in Tasks |-> FALSE]

\* No raw reader exists.
InitReader ==
    /\ rkind = "none"
    /\ index = 0
    /\ rlen = 0
    /\ rbuf = 0
    /\ rgot = 0
    /\ rrep = 0
    /\ rres = "none"

\* Every task is polled by a thread of its own.
Init ==
    /\ worker = [t \in Tasks |-> t]
    /\ scope \in Scopes
    /\ InitFileMap
    /\ InitBucket
    /\ InitMmap
    /\ InitPoll
    /\ InitReader
    /\ fexists = [k \in Keys |-> FALSE]

\* All tasks are polled by one thread (a current-thread runtime, join!).
InitOneWorker ==
    /\ worker = [t \in Tasks |-> 1]
    /\ scope \in Scopes
    /\ InitFileMap
    /\ InitBucket
    /\ InitMmap
    /\ InitPoll
    /\ InitReader
    /\ fexists = [k \in Keys |-> FALSE]

\* Three tasks contend for one key; or for one child name; or work apart on
\* two keys and a child name.
BucketScopes == {[t \in Tasks |-> {"k"}],
                 [t \in Tasks |-> {"x"}],
                 [t \in Tasks |-> IF t = 1 THEN {"k"} ELSE IF t = 2 THEN {"j"} ELSE {"x"}]}

\* A Bucket over a directory that may hold files already; the registry is
\* not used.
InitBucketOnly ==
    /\ worker = [t \in Tasks |-> t]
    /\ scope \in BucketScopes
    /\ InitFileMap
    /\ InitBucket
    /\ InitMmap
    /\ InitPoll
    /\ InitReader
    /\ fexists \in [Keys -> BOOLEAN]

\* A call of task t begins: position `first`, nothing returned yet.
Begin(t, o, p, first) ==
    /\ pc[t] = "idle"
    /\ Sched(t)
    /\ rh[t] = NoH
    /\ o # "drop_writer" => wh[t] = NoP
    /\ pc' = [pc EXCEPT ![t] = first]
    /\ op' = [op EXCEPT ![t] = o]
    /\ tpath' = [tpath EXCEPT ![t] = p]
    /\ res' = [res EXCEPT ![t] = "none"]

\* The call of task t returns r.
Return(t, r) ==
    /\ pc' = [pc EXCEPT ![t] = "ret"]
    /\ res' = [res EXCEPT ![t] = r]

\* The caller has looked at what its call returned and goes on.
Finish(t) ==
    /\ pc[t] = "ret"
    /\ Sched(t)
    /\ pc' = [pc EXCEPT ![t] = "idle"]
    /\ op' = [op EXCEPT ![t] = "none"]
    /\ tpath' = [tpath EXCEPT ![t] = NoP]
    /\ res' = [res EXCEPT ![t] = "none"]
    /\ callVer' = [callVer EXCEPT ![t] = 0]
    /\ UNCHANGED <<outsideFileMap, evicted, worker, scope, rh, wh, loc, cache, wflag, filesOwner, writersOwner,
                   exists, fileVer, opensSince, fresh>>

Goto(t, next) ==
    /\ pc' = [pc EXCEPT ![t] = next]
    /\ UNCHANGED res

-----------------------------------------------------------------------------
(* FileMap::get *)

CallGet(t) ==
    \E p \in scope[t] :
        /\ Begin(t, "get", p, "g1")
        /\ callVer' = [callVer EXCEPT ![t] =
                          IF \E u \in Tasks : wh[u] = p THEN 0 ELSE fileVer[p]]
        /\ UNCHANGED <<outsideFileMap, evicted, worker, scope, rh, wh, loc, cache, wflag, filesOwner,
                       writersOwner, exists, fileVer, opensSince, fresh>>

\* First block: lock writers, fail when the path has an entry, unlock.
GetCheck1(t) ==
    /\ pc[t] = "g1"
    /\ Sched(t)
    /\ writersOwner = NoT
    /\ IF wflag[tpath[t]] THEN Return(t, "busy") ELSE Goto(t, "g2")
    /\ UNCHANGED <<outsideFileMap, evicted, worker, scope, op, tpath, rh, wh, loc, callVer, cache, wflag,
                   filesOwner, writersOwner, exists, fileVer, opensSince, fresh>>

\* Second block: the same check once more.
GetCheck2(t) ==
    /\ pc[t] = "g2"
    /\ Sched(t)
    /\ writersOwner = NoT
    /\ IF wflag[tpath[t]] THEN Return(t, "busy") ELSE Goto(t, "g3")
    /\ UNCHANGED <<outsideFileMap, evicted, worker, scope, op, tpath, rh, wh, loc, callVer, cache, wflag,
                   filesOwner, writersOwner, exists, fileVer, opensSince, fresh>>

\* A get that lets go of the files mutex while the file is being opened.
GetLockFiles_Unlocked(t) ==
    /\ pc[t] = "g3"
    /\ Sched(t)
    /\ filesOwner = NoT
    /\ IF cache[tpath[t]] # NoH
       THEN /\ rh' = [rh EXCEPT ![t] = cache[tpath[t]]]
            /\ fresh' = [fresh EXCEPT ![t] = TRUE]
            /\ Return(t, "ok")
       ELSE /\ Goto(t, "g_open")
            /\ UNCHANGED <<rh, fresh>>
    /\ UNCHANGED <<outsideFileMap, evicted, worker, scope, op, tpath, wh, loc, callVer, cache, wflag, filesOwner,
                   writersOwner, exists, fileVer, opensSince>>

\* Lock files; a cached mapping is cloned and returned, otherwise the open
\* starts and the task suspends in it with the files mutex still held.
GetLockFiles(t) ==
    /\ pc[t] = "g3"
    /\ Sched(t)
    /\ filesOwner = NoT
    /\ IF cache[tpath[t]] # NoH
       THEN /\ rh' = [rh EXCEPT ![t] = cache[tpath[t]]]
            /\ fresh' = [fresh EXCEPT ![t] = TRUE]
            /\ Return(t, "ok")
            /\ UNCHANGED filesOwner
       ELSE /\ filesOwner' = t
            /\ Goto(t, "g_open")
            /\ UNCHANGED <<rh, fresh>>
    /\ UNCHANGED <<outsideFileMap, evicted, worker, scope, op, tpath, wh, loc, callVer, cache, wflag,
                   writersOwner, exists, fileVer, opensSince>>

\* MmapFile::open(&path).await resolves: map, insert a clone, return; or `?`.
GetOpenDone(t) ==
    /\ pc[t] = "g_open"
    /\ Sched(t)
    /\ IF exists[tpath[t]]
       THEN /\ Handles([rh EXCEPT ![t] = MmapOpen(tpath[t])], loc,
                       [cache EXCEPT ![tpath[t]] = MmapOpen(tpath[t])])
            /\ opensSince' = [opensSince EXCEPT ![tpath[t]] = IF @ < 2 THEN @ + 1 ELSE @]
            /\ fresh' = [fresh EXCEPT ![t] = TRUE]
            /\ Return(t, "ok")
       ELSE /\ Return(t, "ioerr")
            /\ UNCHANGED <<cache, rh, loc, opensSince, fresh>>
    /\ filesOwner' = NoT
    /\ UNCHANGED <<outsideFileMap, evicted, worker, scope, op, tpath, wh, callVer, wflag,
                   writersOwner, exists, fileVer>>

\* The caller drops its MmapFile.
DropReader(t) ==
    /\ pc[t] = "idle"
    /\ Sched(t)
    /\ rh[t] # NoH
    /\ Handles([rh EXCEPT ![t] = NoH], loc, cache)
    /\ fresh' = [fresh EXCEPT ![t] = FALSE]
    /\ UNCHANGED <<outsideFileMap, evicted, worker, scope, pc, op, res, tpath, wh, callVer, wflag, filesOwner,
                   writersOwner, exists, fileVer, opensSince>>

-----------------------------------------------------------------------------
(* FileMap::try_writer and FileMap::writer *)

CallTryWriter(t) ==
    \E p \in scope[t], o \in {"try_writer", "writer"} :
        /\ Begin(t, o, p, "tw1")
        /\ UNCHANGED <<outsideFileMap, evicted, worker, scope, rh, wh, loc, callVer, cache, wflag, filesOwner,
                       writersOwner, exists, fileVer, opensSince, fresh>>

\* try_writer ends with an ErrorKind::Other error: try_writer returns it,
\* writer yields and tries again.
Contended(t) ==
    IF op[t] = "writer" THEN Goto(t, "w_yield") ELSE Return(t, "busy")

\* A try_writer that does not look at the writers table.
TwLockWriters_IgnoreFlag(t) ==
    /\ pc[t] = "tw1"
    /\ Sched(t)
    /\ writersOwner = NoT
    /\ writersOwner' = t
    /\ Goto(t, "tw2")
    /\ UNCHANGED <<outsideFileMap, evicted, worker, scope, op, tpath, rh, wh, loc, callVer, cache, wflag,
                   filesOwner, exists, fileVer, opensSince, fresh>>

\* Lock writers; an entry for the path is a contention error.
TwLockWriters(t) ==
    /\ pc[t] = "tw1"
    /\ Sched(t)
    /\ writersOwner = NoT
    /\ IF wflag[tpath[t]]
       THEN /\ Contended(t)
            /\ UNCHANGED writersOwner
       ELSE /\ writersOwner' = t
            /\ Goto(t, "tw2")
    /\ UNCHANGED <<outsideFileMap, evicted, worker, scope, op, tpath, rh, wh, loc, callVer, cache, wflag,
                   filesOwner, exists, fileVer, opensSince, fresh>>

\* With writers held, lock files: a cached mapping with more than one share
\* is a contention error; otherwise evict it, insert the writers entry,
\* unlock both and start opening the file.
TwLockFiles(t) ==
    /\ pc[t] = "tw2"
    /\ Sched(t)
    /\ filesOwner = NoT
    /\ IF cache[tpath[t]] # NoH /\ ReaderCount(cache[tpath[t]]) > 1
       THEN /\ Contended(t)
            /\ UNCHANGED <<rh, loc, cache, wflag, opensSince, fresh, evicted>>
       ELSE /\ Handles(rh, loc, [cache EXCEPT ![tpath[t]] = NoH])
            /\ Evicted(tpath[t])
            /\ evicted' = [evicted EXCEPT ![t] = cache[tpath[t]] # NoH]
            /\ wflag' = [wflag EXCEPT ![tpath[t]] = TRUE]
            /\ Goto(t, "tw_open")
    /\ writersOwner' = NoT
    /\ UNCHANGED <<outsideFileMap, worker, scope, op, tpath, wh, callVer, filesOwner,
                   exists, fileVer>>

\* File::options().write(true).append(append).create(true).open().await
\* resolves: the Writer, or an I/O error that is rolled back next.
TwOpenDone(t) ==
    /\ pc[t] = "tw_open"
    /\ Sched(t)
    /\ \E ok \in BOOLEAN :
          IF ok
          THEN /\ exists' = [exists EXCEPT ![tpath[t]] = TRUE]
               /\ wh' = [wh EXCEPT ![t] = tpath[t]]
               /\ evicted' = [evicted EXCEPT ![t] = FALSE]
               /\ Return(t, "ok")
          ELSE /\ Goto(t, "tw_rb")
               /\ UNCHANGED <<exists, wh, evicted>>
    /\ UNCHANGED <<outsideFileMap, worker, scope, op, tpath, rh, loc, callVer, cache, wflag, filesOwner,
                   writersOwner, fileVer, opensSince, fresh>>

\* The Err arm: lock writers, remove the entry, return the error.
TwRollback(t) ==
    /\ pc[t] = "tw_rb"
    /\ Sched(t)
    /\ writersOwner = NoT
    /\ wflag' = [wflag EXCEPT ![tpath[t]] = FALSE]
    /\ evicted' = [evicted EXCEPT ![t] = FALSE]
    /\ Return(t, "ioerr")
    /\ UNCHANGED <<outsideFileMap, worker, scope, op, tpath, rh, wh, loc, callVer, cache, filesOwner,
                   writersOwner, exists, fileVer, opensSince, fresh>>

\* writer: after yield_now().await the loop calls try_writer again.
WriterRetry(t) ==
    /\ pc[t] = "w_yield"
    /\ Sched(t)
    /\ Goto(t, "tw1")
    /\ UNCHANGED <<outsideFileMap, evicted, worker, scope, op, tpath, rh, wh, loc, callVer, cache, wflag,
                   filesOwner, writersOwner, exists, fileVer, opensSince, fresh>>

\* The caller abandons its pending try_writer or writer call: the future is
\* dropped at the .await it is suspended in (the open, or yield_now), and
\* with it the locals of the call.  No guard is alive at either point.
CancelWriter(t) ==
    /\ pc[t] \in {"tw_open", "w_yield"}
    /\ Sched(t)
    /\ pc' = [pc EXCEPT ![t] = "idle"]
    /\ op' = [op EXCEPT ![t] = "none"]
    /\ tpath' = [tpath EXCEPT ![t] = NoP]
    /\ evicted' = [evicted EXCEPT ![t] = FALSE]
    /\ UNCHANGED <<outsideFileMap, worker, scope, res, rh, wh, loc, callVer, cache, wflag,
                   filesOwner, writersOwner, exists, fileVer, opensSince, fresh>>

\* The holder of a Writer writes to the file through it and the file grows;
\* a mapping made before keeps the length and content it was made with.
Write(t) ==
    /\ pc[t] = "idle"
    /\ Sched(t)
    /\ wh[t] # NoP
    /\ fileVer[wh[t]] < MaxWrites
    /\ fileVer' = [fileVer EXCEPT ![wh[t]] = @ + 1]
    /\ UNCHANGED <<outsideFileMap, evicted, worker, scope, pc, op, res, tpath, rh, wh, loc, callVer, cache, wflag,
                   filesOwner, writersOwner, exists, opensSince, fresh>>

\* Drop for Writer begins.
CallDropWriter(t) ==
    /\ wh[t] # NoP
    /\ Begin(t, "drop_writer", wh[t], "dw")
    /\ UNCHANGED <<outsideFileMap, evicted, worker, scope, rh, wh, loc, callVer, cache, wflag, filesOwner,
                   writersOwner, exists, fileVer, opensSince, fresh>>

\* A Drop for Writer that empties the writers table.
DropWriter_ClearsAll(t) ==
    /\ pc[t] = "dw"
    /\ Sched(t)
    /\ writersOwner = NoT
    /\ wflag' = [p \in Paths |-> FALSE]
    /\ wh' = [wh EXCEPT ![t] = NoP]
    /\ Return(t, "ok")
    /\ UNCHANGED <<outsideFileMap, evicted, worker, scope, op, tpath, rh, loc, callVer, cache, filesOwner,
                   writersOwner, exists, fileVer, opensSince, fresh>>

\* Drop for Writer: lock writers and remove the path's entry.
DropWriter(t) ==
    /\ pc[t] = "dw"
    /\ Sched(t)
    /\ writersOwner = NoT
    /\ wflag' = [wflag EXCEPT ![wh[t]] = FALSE]
    /\ wh' = [wh EXCEPT ![t] = NoP]
    /\ Return(t, "ok")
    /\ UNCHANGED <<outsideFileMap, evicted, worker, scope, op, tpath, rh, loc, callVer, cache, filesOwner,
                   writersOwner, exists, fileVer, opensSince, fresh>>

-----------------------------------------------------------------------------
(* FileMap::remove and FileMap::remove_blocking *)

CallRemove(t) ==
    \E p \in scope[t] :
        /\ Begin(t, "remove", p, "rm")
        /\ UNCHANGED <<outsideFileMap, evicted, worker, scope, rh, wh, loc, callVer, cache, wflag, filesOwner,
                       writersOwner, exists, fileVer, opensSince, fresh>>

Remove(t) ==
    /\ pc[t] = "rm"
    /\ Sched(t)
    /\ filesOwner = NoT
    /\ Handles(rh, loc, [cache EXCEPT ![tpath[t]] = NoH])
    /\ Evicted(tpath[t])
    /\ Return(t, "ok")
    /\ UNCHANGED <<outsideFileMap, evicted, worker, scope, op, tpath, wh, callVer, wflag, filesOwner,
                   writersOwner, exists, fileVer>>

CallRemoveBlocking(t) ==
    \E p \in scope[t] :
        /\ Begin(t, "remove_blocking", p, "rb1")
        /\ UNCHANGED <<outsideFileMap, evicted, worker, scope, rh, wh, loc, callVer, cache, wflag, filesOwner,
                       writersOwner, exists, fileVer, opensSince, fresh>>

\* let f = { lock files; m.remove(path) }; None returns at once.
RbLock(t) ==
    /\ pc[t] = "rb1"
    /\ Sched(t)
    /\ filesOwner = NoT
    /\ IF cache[tpath[t]] = NoH
       THEN /\ Return(t, "nothing")
            /\ UNCHANGED <<rh, loc, cache, opensSince, fresh>>
       ELSE /\ Handles(rh, [loc EXCEPT ![t] = cache[tpath[t]]],
                       [cache EXCEPT ![tpath[t]] = NoH])
            /\ Evicted(tpath[t])
            /\ Goto(t, "rb_chk")
    /\ UNCHANGED <<outsideFileMap, evicted, worker, scope, op, tpath, wh, callVer, wflag, filesOwner,
                   writersOwner, exists, fileVer>>

\* A remove_blocking that returns the mapping without draining its readers.
RbPoll_NoWait(t) ==
    /\ pc[t] \in {"rb_chk", "rb_yield"}
    /\ Sched(t)
    /\ Handles([rh EXCEPT ![t] = loc[t]], [loc EXCEPT ![t] = NoH], cache)
    /\ Return(t, "ok")
    /\ UNCHANGED <<outsideFileMap, evicted, worker, scope, op, tpath, wh, callVer, wflag, filesOwner,
                   writersOwner, exists, fileVer, opensSince, fresh>>

\* while f.reader_count() > 1 { yield_now().await }  return Some(f)
RbPoll(t) ==
    /\ pc[t] \in {"rb_chk", "rb_yield"}
    /\ Sched(t)
    /\ IF ReaderCount(loc[t]) > 1
       THEN /\ Goto(t, "rb_yield")
            /\ UNCHANGED <<rh, loc, cache>>
       ELSE /\ Handles([rh EXCEPT ![t] = loc[t]], [loc EXCEPT ![t] = NoH], cache)
            /\ Return(t, "ok")
    /\ UNCHANGED <<outsideFileMap, evicted, worker, scope, op, tpath, wh, callVer, wflag, filesOwner,
                   writersOwner, exists, fileVer, opensSince, fresh>>

-----------------------------------------------------------------------------
(* Bucket: calls, the two tables and the key locks *)

\* A Bucket call of task t begins; a caller holds at most one guard.
BBegin(t, o, a, first) ==
    /\ bpc[t] = "idle"
    /\ held[t] = NoG
    /\ bpc' = [bpc EXCEPT ![t] = first]
    /\ bop' = [bop EXCEPT ![t] = o]
    /\ barg' = [barg EXCEPT ![t] = a]
    /\ bres' = [bres EXCEPT ![t] = "none"]
    /\ seen' = [seen EXCEPT ![t] = o \in {"buffered_read", "read_file"} /\ wrote[a] = 2]
    /\ UNCHANGED <<bret, lk, held, locks, fexists, children, created, wrote>>

\* The call returns r (or, for r = "panic", unwinds).
BReturn(t, r) ==
    /\ bpc' = [bpc EXCEPT ![t] = "ret"]
    /\ bres' = [bres EXCEPT ![t] = r]

BGoto(t, next) ==
    /\ bpc' = [bpc EXCEPT ![t] = next]
    /\ UNCHANGED bres

\* The caller has looked at what its call returned and goes on.
BFinish(t) ==
    /\ bpc[t] = "ret"
    /\ bpc' = [bpc EXCEPT ![t] = "idle"]
    /\ bop' = [bop EXCEPT ![t] = "none"]
    /\ barg' = [barg EXCEPT ![t] = NoP]
    /\ bres' = [bres EXCEPT ![t] = "none"]
    /\ bret' = [bret EXCEPT ![t] = 0]
    /\ seen' = [seen EXCEPT ![t] = FALSE]
    /\ UNCHANGED <<lk, held, locks, fexists, children, created, wrote>>
    /\ UNCHANGED outsideBucket

\* self.files.read() is held across an .await only by get_fd, while it
\* waits for the key's lock; self.files.write() needs no read guard out.
TableReadHeld == \E u \in Tasks : bpc[u] = "gf_wait"

\* tokio RwLock of the lock object g of key k: who holds which guard.
WriterOf(k, g) == {u \in Tasks : held[u] = [key |-> k, gen |-> g, mode |-> "w"]}
ReadersOf(k, g) == {u \in Tasks : held[u] = [key |-> k, gen |-> g, mode |-> "r"]}
CanRead(k, g) == WriterOf(k, g) = {}
CanWrite(k, g) == WriterOf(k, g) = {} /\ ReadersOf(k, g) = {}

\* files.entry(name).or_insert_with(Default::default): the entry's lock.
EntryOrInsert(k) == IF locks[k] = 0 THEN 1 ELSE locks[k]

\* Task t takes a guard of its local `lock`.
Acquire(t, m) ==
    /\ held' = [held EXCEPT ![t] = [key |-> barg[t], gen |-> lk[t], mode |-> m]]
    /\ lk' = [lk EXCEPT ![t] = 0]

\* Task t's guard is dropped.
Release(t) == held' = [held EXCEPT ![t] = NoG]

-----------------------------------------------------------------------------
(* Bucket::bucket and Bucket::bucket_or_create *)

CallBucketOrCreate(t) ==
    \E n \in Names \cap scope[t] :
        /\ BBegin(t, "bucket_or_create", n, "boc")
        /\ UNCHANGED outsideBucket

\* A bucket_or_create that constructs and stores a child on every call.
BucketOrCreate_AlwaysNew(t) ==
    /\ bpc[t] = "boc"
    /\ created[barg[t]] < MaxBuckets
    /\ created' = [created EXCEPT ![barg[t]] = @ + 1]
    /\ children' = [children EXCEPT ![barg[t]] = created[barg[t]] + 1]
    /\ bret' = [bret EXCEPT ![t] = created[barg[t]] + 1]
    /\ BReturn(t, "ok")
    /\ UNCHANGED <<bop, barg, lk, held, locks, fexists, wrote, seen>>
    /\ UNCHANGED outsideBucket

\* With buckets.write() held: an occupied entry is cloned; a vacant one
\* gets Bucket::new(path)?, whose create_dir_all may fail.
BucketOrCreate(t) ==
    /\ bpc[t] = "boc"
    /\ IF children[barg[t]] # 0
       THEN /\ bret' = [bret EXCEPT ![t] = children[barg[t]]]
            /\ BReturn(t, "ok")
            /\ UNCHANGED <<children, created>>
       ELSE \E ok \in BOOLEAN :
               IF ok
               THEN /\ created[barg[t]] < MaxBuckets
                    /\ created' = [created EXCEPT ![barg[t]] = @ + 1]
                    /\ children' = [children EXCEPT ![barg[t]] = created[barg[t]] + 1]
                    /\ bret' = [bret EXCEPT ![t] = created[barg[t]] + 1]
                    /\ BReturn(t, "ok")
               ELSE /\ BReturn(t, "ioerr")
                    /\ UNCHANGED <<children, created, bret>>
    /\ UNCHANGED <<bop, barg, lk, held, locks, fexists, wrote, seen>>
    /\ UNCHANGED outsideBucket

CallBucket(t) ==
    \E n \in Names \cap scope[t] :
        /\ BBegin(t, "bucket", n, "bk")
        /\ UNCHANGED outsideBucket

\* With buckets.read() held: lock.get(name).cloned()
BucketLookup(t) ==
    /\ bpc[t] = "bk"
    /\ bret' = [bret EXCEPT ![t] = children[barg[t]]]
    /\ BReturn(t, IF children[barg[t]] # 0 THEN "ok" ELSE "none")
    /\ UNCHANGED <<bop, barg, lk, held, locks, fexists, children, created, wrote, seen>>
    /\ UNCHANGED outsideBucket

-----------------------------------------------------------------------------
(* Bucket::buffered_read *)

CallBufferedRead(t) ==
    \E k \in Keys \cap scope[t] :
        /\ BBegin(t, "buffered_read", k, "br1")
        /\ UNCHANGED outsideBucket

\* With files.read() held: no entry is NotFound, else clone the lock.
BrTable(t) ==
    /\ bpc[t] = "br1"
    /\ IF locks[barg[t]] = 0
       THEN /\ BReturn(t, "notfound")
            /\ UNCHANGED lk
       ELSE /\ lk' = [lk EXCEPT ![t] = locks[barg[t]]]
            /\ BGoto(t, "br2")
    /\ UNCHANGED <<bop, barg, bret, held, locks, fexists, children, created, wrote, seen>>
    /\ UNCHANGED outsideBucket

\* let _lock = lock.read().await
BrAcquire(t) ==
    /\ bpc[t] = "br2"
    /\ CanRead(barg[t], lk[t])
    /\ Acquire(t, "r")
    /\ BGoto(t, "br3")
    /\ UNCHANGED <<bop, barg, bret, locks, fexists, children, created, wrote, seen>>
    /\ UNCHANGED outsideBucket

\* File::open(path).await.unwrap(): a missing file panics, and the
\* unwinding drops the guard.
BrOpen(t) ==
    /\ bpc[t] = "br3"
    /\ IF fexists[barg[t]]
       THEN /\ BGoto(t, "br_body")
            /\ UNCHANGED held
       ELSE /\ Release(t)
            /\ BReturn(t, "panic")
    /\ UNCHANGED <<bop, barg, bret, lk, locks, fexists, children, created, wrote, seen>>
    /\ UNCHANGED outsideBucket

\* reader(&mut f).await is over; the guard goes out of scope.
BrBody(t) ==
    /\ bpc[t] = "br_body"
    /\ Release(t)
    /\ BReturn(t, "ok")
    /\ UNCHANGED <<bop, barg, bret, lk, locks, fexists, children, created, wrote, seen>>
    /\ UNCHANGED outsideBucket

-----------------------------------------------------------------------------
(* Bucket::buffered_write *)

CallBufferedWrite(t) ==
    \E k \in Keys \cap scope[t] :
        /\ BBegin(t, "buffered_write", k, "bw1")
        /\ UNCHANGED outsideBucket

\* With files.write() held: entry(name).or_insert_with(default), clone.
BwTable(t) ==
    /\ bpc[t] = "bw1"
    /\ ~TableReadHeld
    /\ locks' = [locks EXCEPT ![barg[t]] = EntryOrInsert(barg[t])]
    /\ lk' = [lk EXCEPT ![t] = EntryOrInsert(barg[t])]
    /\ wrote' = [wrote EXCEPT ![barg[t]] = IF @ = 0 THEN 1 ELSE @]
    /\ BGoto(t, "bw2")
    /\ UNCHANGED <<bop, barg, bret, held, fexists, children, created, seen>>
    /\ UNCHANGED outsideBucket

\* let _lock = lock.write().await, first poll: the guard, or the caller is
\* queued on the lock and suspends.
BwAcquire(t) ==
    /\ bpc[t] = "bw2"
    /\ IF CanWrite(barg[t], lk[t])
       THEN /\ Acquire(t, "w")
            /\ BGoto(t, "bw3")
       ELSE /\ BGoto(t, "bw_wait")
            /\ UNCHANGED <<held, lk>>
    /\ UNCHANGED <<bop, barg, bret, locks, fexists, children, created, wrote, seen>>
    /\ UNCHANGED outsideBucket

\* lock.write().await: the lock is free and the queued caller gets the guard.
BwWake(t) ==
    /\ bpc[t] = "bw_wait"
    /\ CanWrite(barg[t], lk[t])
    /\ Acquire(t, "w")
    /\ BGoto(t, "bw3")
    /\ UNCHANGED <<bop, barg, bret, locks, fexists, children, created, wrote, seen>>
    /\ UNCHANGED outsideBucket

\* File::create(path).await?
BwCreate(t) ==
    /\ bpc[t] = "bw3"
    /\ \E ok \in BOOLEAN :
          IF ok
          THEN /\ fexists' = [fexists EXCEPT ![barg[t]] = TRUE]
               /\ BGoto(t, "bw_body")
               /\ UNCHANGED held
          ELSE /\ Release(t)
               /\ BReturn(t, "ioerr")
               /\ UNCHANGED fexists
    /\ UNCHANGED <<bop, barg, bret, lk, locks, children, created, wrote, seen>>
    /\ UNCHANGED outsideBucket

\* reader(&mut f).await? and f.flush().await are over; the guard goes out
\* of scope.
BwBody(t) ==
    /\ bpc[t] = "bw_body"
    /\ Release(t)
    /\ wrote' = [wrote EXCEPT ![barg[t]] = 2]
    /\ BReturn(t, "ok")
    /\ UNCHANGED <<bop, barg, bret, lk, locks, fexists, children, created, seen>>
    /\ UNCHANGED outsideBucket

-----------------------------------------------------------------------------
(* Bucket::write_file and LockedFileWrite::new *)

CallWriteFile(t) ==
    \E k \in Keys \cap scope[t] :
        /\ BBegin(t, "write_file", k, "wf1")
        /\ UNCHANGED outsideBucket

\* With files.write() held: entry(name).or_insert_with(default), clone.
WfTable(t) ==
    /\ bpc[t] = "wf1"
    /\ ~TableReadHeld
    /\ locks' = [locks EXCEPT ![barg[t]] = EntryOrInsert(barg[t])]
    /\ lk' = [lk EXCEPT ![t] = EntryOrInsert(barg[t])]
    /\ wrote' = [wrote EXCEPT ![barg[t]] = IF @ = 0 THEN 1 ELSE @]
    /\ BGoto(t, "wf2")
    /\ UNCHANGED <<bop, barg, bret, held, fexists, children, created, seen>>
    /\ UNCHANGED outsideBucket

\* LockedFileWrite::new: let lock = lock.write_owned().await, first poll:
\* the guard, or the caller is queued on the lock and suspends.
WfAcquire(t) ==
    /\ bpc[t] = "wf2"
    /\ IF CanWrite(barg[t], lk[t])
       THEN /\ Acquire(t, "w")
            /\ BGoto(t, "wf3")
       ELSE /\ BGoto(t, "wf_wait")
            /\ UNCHANGED <<held, lk>>
    /\ UNCHANGED <<bop, barg, bret, locks, fexists, children, created, wrote, seen>>
    /\ UNCHANGED outsideBucket

\* lock.write_owned().await: the lock is free and the queued caller gets the
\* guard.
WfWake(t) ==
    /\ bpc[t] = "wf_wait"
    /\ CanWrite(barg[t], lk[t])
    /\ Acquire(t, "w")
    /\ BGoto(t, "wf3")
    /\ UNCHANGED <<bop, barg, bret, locks, fexists, children, created, wrote, seen>>
    /\ UNCHANGED outsideBucket

\* LockedFileWrite::new: File::create(fp).await?, then Ok(Self { f, lock }):
\* the caller holds the write guard inside the LockedFileWrite.
WfCreate(t) ==
    /\ bpc[t] = "wf3"
    /\ \E ok \in BOOLEAN :
          IF ok
          THEN /\ fexists' = [fexists EXCEPT ![barg[t]] = TRUE]
               /\ BReturn(t, "ok")
               /\ UNCHANGED held
          ELSE /\ Release(t)
               /\ BReturn(t, "ioerr")
               /\ UNCHANGED fexists
    /\ UNCHANGED <<bop, barg, bret, lk, locks, children, created, wrote, seen>>
    /\ UNCHANGED outsideBucket

\* The caller drops its LockedFileWrite or LockedFileRead.
DropGuard(t) ==
    /\ bpc[t] = "idle"
    /\ held[t] # NoG
    /\ Release(t)
    /\ wrote' = IF held[t].mode = "w" THEN [wrote EXCEPT ![held[t].key] = 2] ELSE wrote
    /\ UNCHANGED <<bpc, bop, barg, bres, bret, lk, locks, fexists, children, created, seen>>
    /\ UNCHANGED outsideBucket

-----------------------------------------------------------------------------
(* Bucket::get_fd, Bucket::read_file and LockedFileRead::new *)

CallGetFd(t) ==
    \E k \in Keys \cap scope[t] :
        /\ BBegin(t, "get_fd", k, "gf1")
        /\ UNCHANGED outsideBucket

\* read_file starts with self.get_fd(name).await?
CallReadFile(t) ==
    \E k \in Keys \cap scope[t] :
        /\ BBegin(t, "read_file", k, "gf1")
        /\ UNCHANGED outsideBucket

\* With files.read() held: no entry gives fd = None and the guard is
\* dropped; an entry is read-locked next, with files.read() still held.
GfTable(t) ==
    /\ bpc[t] = "gf1"
    /\ IF locks[barg[t]] = 0
       THEN /\ BGoto(t, "gf3")
            /\ UNCHANGED lk
       ELSE /\ lk' = [lk EXCEPT ![t] = locks[barg[t]]]
            /\ BGoto(t, "gf_wait")
    /\ UNCHANGED <<bop, barg, bret, held, locks, fexists, children, created, wrote, seen>>
    /\ UNCHANGED outsideBucket

\* fl.read().await.clone() resolves, both guards are dropped, and fd is
\* Some: panic!.
GfWait(t) ==
    /\ bpc[t] = "gf_wait"
    /\ CanRead(barg[t], lk[t])
    /\ lk' = [lk EXCEPT ![t] = 0]
    /\ BReturn(t, "panic")
    /\ UNCHANGED <<bop, barg, bret, held, locks, fexists, children, created, wrote, seen>>
    /\ UNCHANGED outsideBucket

\* With files.write() held: entry(name).or_insert_with(default); a failed
\* open returns with that entry left in place; otherwise the entry's value
\* is overwritten with a new lock object, *lock = Arc::new(RwLock::new(fd)).
\* (A default lock that is inserted and overwritten in this one step is
\* seen by nobody and gets no number.)
GfInstall(t) ==
    /\ bpc[t] = "gf3"
    /\ ~TableReadHeld
    /\ IF fexists[barg[t]]
       THEN /\ locks[barg[t]] < MaxLockGen
            /\ locks' = [locks EXCEPT ![barg[t]] = @ + 1]
            /\ IF bop[t] = "read_file" THEN BGoto(t, "rf1") ELSE BReturn(t, "ok")
       ELSE /\ locks' = [locks EXCEPT ![barg[t]] = EntryOrInsert(barg[t])]
            /\ BReturn(t, "ioerr")
    /\ UNCHANGED <<bop, barg, bret, lk, held, fexists, children, created, wrote, seen>>
    /\ UNCHANGED outsideBucket

\* read_file, with files.read() held: no entry is NotFound, else clone.
RfTable(t) ==
    /\ bpc[t] = "rf1"
    /\ IF locks[barg[t]] = 0
       THEN /\ BReturn(t, "notfound")
            /\ UNCHANGED lk
       ELSE /\ lk' = [lk EXCEPT ![t] = locks[barg[t]]]
            /\ BGoto(t, "rf2")
    /\ UNCHANGED <<bop, barg, bret, held, locks, fexists, children, created, wrote, seen>>
    /\ UNCHANGED outsideBucket

\* LockedFileRead::new: let lock = lock.read_owned().await; the caller
\* holds the read guard inside the LockedFileRead.
RfAcquire(t) ==
    /\ bpc[t] = "rf2"
    /\ CanRead(barg[t], lk[t])
    /\ Acquire(t, "r")
    /\ BReturn(t, "ok")
    /\ UNCHANGED <<bop, barg, bret, locks, fexists, children, created, wrote, seen>>
    /\ UNCHANGED outsideBucket

-----------------------------------------------------------------------------

Next ==
    \E t \in Tasks :
        \/ Finish(t)
        \/ CallGet(t)
        \/ GetCheck1(t)
        \/ GetCheck2(t)
        \/ GetLockFiles(t)
        \/ GetOpenDone(t)
        \/ DropReader(t)
        \/ CallTryWriter(t)
        \/ TwLockWriters(t)
        \/ TwLockFiles(t)
        \/ TwOpenDone(t)
        \/ TwRollback(t)
        \/ WriterRetry(t)
        \/ Write(t)
        \/ CallDropWriter(t)
        \/ DropWriter(t)
        \/ CallRemove(t)
        \/ Remove(t)
        \/ CallRemoveBlocking(t)
        \/ RbLock(t)
        \/ RbPoll(t)

Spec == Init /\ [][Next]_vars

OneWorkerSpec == InitOneWorker /\ [][Next]_vars

\* Callers may also abandon a pending writer acquisition.
CancelNext ==
    \/ Next
    \/ \E t \in Tasks : CancelWriter(t)

CancelSpec == InitOneWorker /\ [][CancelNext]_vars

BucketNext ==
    \E t \in Tasks :
        \/ BFinish(t)
        \/ CallBucketOrCreate(t)
        \/ BucketOrCreate(t)
        \/ CallBucket(t)
        \/ BucketLookup(t)
        \/ CallBufferedRead(t)
        \/ BrTable(t)
        \/ BrAcquire(t)
        \/ BrOpen(t)
        \/ BrBody(t)
        \/ CallBufferedWrite(t)
        \/ BwTable(t)
        \/ BwAcquire(t)
        \/ BwWake(t)
        \/ BwCreate(t)
        \/ BwBody(t)
        \/ CallWriteFile(t)
        \/ WfTable(t)
        \/ WfAcquire(t)
        \/ WfWake(t)
        \/ WfCreate(t)
        \/ DropGuard(t)
        \/ CallGetFd(t)
        \/ CallReadFile(t)
        \/ GfTable(t)
        \/ GfWait(t)
        \/ GfInstall(t)
        \/ RfTable(t)
        \/ RfAcquire(t)

BucketSpec == InitBucketOnly /\ [][BucketNext]_vars

\* What the runtime does for a call in progress once its task can be
\* polled: the call's next step.  Beginning a call, writing and dropping a
\* handle are up to the caller.
Progress(t) ==
    \/ Finish(t)
    \/ GetCheck1(t) \/ GetCheck2(t) \/ GetLockFiles(t) \/ GetOpenDone(t)
    \/ TwLockWriters(t) \/ TwLockFiles(t) \/ TwOpenDone(t) \/ TwRollback(t)
    \/ WriterRetry(t)
    \/ DropWriter(t)
    \/ Remove(t)
    \/ RbLock(t) \/ RbPoll(t)

\* One worker thread whose scheduler is fair: a task that is runnable again
\* and again is polled (the run queue is first-in first-out).
FairSpec == OneWorkerSpec /\ \A t \in Tasks : SF_vars(Progress(t))

-----------------------------------------------------------------------------
(* What the claims speak of *)

\* Task t has just been handed the result r of its call o.
Returned(t, o, r) == pc[t] = "ret" /\ op[t] = o /\ res[t] = r

\* This step is the return of task t's call o with result r.
Returns(t, o, r) ==
    /\ op[t] = o
    /\ pc[t] # "ret"
    /\ pc'[t] = "ret"
    /\ res'[t] = r

\* A Writer handle for p is outstanding.
WriterOut(p) == \E u \in Tasks : wh[u] = p

\* Tasks that hold the Writer of p or have been granted it and are opening.
Granted(p) ==
    {t \in Tasks : wh[t] = p
                   \/ (pc[t] \in {"tw_open", "tw_rb"} /\ tpath[t] = p)}

-----------------------------------------------------------------------------
(* C1..C4, C7, C8: the registry *)

\* C1: for every path at most one Writer handle is outstanding at any
\* instant; of the attempts racing on a path only one is granted, and no
\* other is granted until that handle is dropped (the writers entry stays
\* in place for as long as the grant or the handle lives).
C1_SingleWriter ==
    \A p \in Paths :
        /\ Cardinality(Granted(p)) <= 1
        /\ Granted(p) # {} => wflag[p]

\* A Writer is held while another task's try_writer on the path was refused.
C1_Witness ==
    \E t, u \in Tasks :
        /\ wh[t] = "a"
        /\ tpath[u] = "a"
        /\ Returned(u, "try_writer", "busy")

\* C2: no get(P) returns a MmapFile while a Writer handle for P is
\* outstanding.
C2_GetRefusedUnderWriter ==
    [][\A t \in Tasks : Returns(t, "get", "ok") => ~WriterOut(tpath[t])]_vars

\* C3: try_writer(P) succeeds only at a moment when no caller holds a
\* MmapFile of P.
C3_NoReaderAtGrant ==
    [][\A t \in Tasks :
          Returns(t, "try_writer", "ok") =>
              \A u \in Tasks : rh[u].path # tpath[t]]_vars

\* C4: a get(P) issued when no Writer for P is outstanding returns a mapping
\* that reflects every write made to P before the get was issued.
C4_GetSeesWrites ==
    \A t \in Tasks : Returned(t, "get", "ok") => rh[t].ver >= callVer[t]

\* C7: get converges on one cached mapping per path: the file is opened at
\* most once between two evictions, an open is in progress only for a path
\* with no entry, and every handle get handed out since the last eviction
\* of its path is a share of the cached mapping.
C7_OneCachedMapping ==
    /\ \A p \in Paths : opensSince[p] <= 1
    /\ \A t \in Tasks : pc[t] = "g_open" => cache[tpath[t]] = NoH
    /\ \A t \in Tasks : fresh[t] => rh[t] = cache[rh[t].path]

\* Two callers hold handles from two get calls on one path.
C7_Witness ==
    \E t, u \in Tasks :
        /\ t # u
        /\ fresh[t] /\ fresh[u]
        /\ rh[t].path = "a" /\ rh[u].path = "a"
        /\ Returned(u, "get", "ok")

\* C8: when remove_blocking returns a mapping, the returned handle is its
\* only live share and the cache holds no share of it.
C8_DrainedOnReturn ==
    \A t \in Tasks :
        Returned(t, "remove_blocking", "ok") =>
            /\ ReaderCount(rh[t]) = 1
            /\ \A p \in Paths : ~SameMap(cache[p], rh[t])

\* remove_blocking has returned the evicted mapping.
C8_Witness ==
    \E t \in Tasks :
        /\ Returned(t, "remove_blocking", "ok")
        /\ rh[t] # NoH

-----------------------------------------------------------------------------
(* C9, C10: the yield loops *)

\* Task t is in the drain loop of remove_blocking and every other share of
\* the mapping it evicted has been dropped.
Drained(t) == pc[t] \in {"rb_chk", "rb_yield"} /\ ReaderCount(loc[t]) <= 1

\* The tasks other than t make no call but get.
OthersOnlyGet(t) == \A u \in Tasks \ {t} : op[u] \in {"none", "get"}

\* C9: once every other share of the evicted mapping is dropped,
\* remove_blocking returns, even if the other tasks keep calling get from
\* then on.
C9_DrainReturns ==
    \A t \in Tasks : [](Drained(t) /\ []OthersOnlyGet(t) => <>(pc[t] = "ret"))

\* Task t is inside writer(p).
InWriter(t) == op[t] = "writer" /\ pc[t] \in {"tw1", "tw2", "tw_open", "tw_rb", "w_yield"}

\* Nothing stands in the way of task t's writer call: nobody else holds or
\* has been granted the Writer of its path, and no caller holds a MmapFile
\* of the path.
Unopposed(t) ==
    /\ Granted(tpath[t]) \subseteq {t}
    /\ \A u \in Tasks : rh[u].path # tpath[t] /\ loc[u].path # tpath[t]

\* C10 (liveness half): a writer call that stays unopposed returns.
C10_WriterReturns ==
    \A t \in Tasks : [](InWriter(t) /\ []Unopposed(t) => <>(pc[t] = "ret"))

\* C10 (safety half): writer never hands a contention error to its caller.
C10_NoContentionError ==
    \A t \in Tasks : ~Returned(t, "writer", "busy")

-----------------------------------------------------------------------------
(* C11, C12: failed and abandoned writer acquisitions *)

\* C11: when try_writer fails because the open failed, the writers entry of
\* the path is gone on return and a cache entry the call removed is back.
C11_RolledBack ==
    [][\A t \in Tasks :
          (Returns(t, "try_writer", "ioerr") \/ Returns(t, "writer", "ioerr")) =>
              /\ ~wflag'[tpath[t]]
              /\ evicted[t] => cache'[tpath[t]] # NoH]_vars

\* C12: a writers entry is in place only for a Writer that is held or being
\* opened; an abandoned try_writer or writer call leaves none behind.
C12_NoStuckFlag ==
    \A p \in Paths : wflag[p] => Granted(p) # {}

-----------------------------------------------------------------------------
(* C5, C6: the Bucket *)

\* Holders of a write guard, and of a read guard, of any lock object of k.
KeyWriters(k) == {t \in Tasks : held[t].key = k /\ held[t].mode = "w"}
KeyReaders(k) == {t \in Tasks : held[t].key = k /\ held[t].mode = "r"}

\* C5: at any instant the holders of access to a key are any number of
\* readers or exactly one writer, never a writer with a reader or with a
\* second writer.
C5_ReadersXorWriter ==
    \A k \in Keys :
        /\ Cardinality(KeyWriters(k)) <= 1
        /\ KeyWriters(k) = {} \/ KeyReaders(k) = {}

\* C6: Bucket::new runs at most once for a child name, and every handle
\* that bucket_or_create or bucket returns is the instance in the table.
C6_OneChildInstance ==
    \A n \in Names :
        /\ created[n] <= 1
        /\ \A t \in Tasks :
              (bpc[t] = "ret" /\ barg[t] = n /\ bret[t] # 0) => bret[t] = children[n]

\* Two bucket_or_create calls and one bucket call on one name have returned.
C6_Witness ==
    \E t, u, v \in Tasks :
        /\ t # u
        /\ bpc[t] = "ret" /\ bop[t] = "bucket_or_create" /\ bres[t] = "ok"
        /\ bpc[u] = "ret" /\ bop[u] = "bucket_or_create" /\ bres[u] = "ok"
        /\ bpc[v] = "ret" /\ bop[v] = "bucket" /\ bres[v] = "ok"
        /\ barg[t] = "x" /\ barg[u] = "x" /\ barg[v] = "x"

-----------------------------------------------------------------------------
(* C13, C14, C16, C17: errors of the Bucket *)

\* C13: no attempt to take a second writer on a key is left waiting for a
\* write guard that is held (it is to end with a Contention error at once).
C13_SecondWriterRefused ==
    \A t \in Tasks :
        bpc[t] \in {"bw_wait", "wf_wait"} => WriterOf(barg[t], lk[t]) = {}

\* This step is the return (or the panic) of task t's Bucket call.
BReturns(t) == bpc[t] # "ret" /\ bpc'[t] = "ret"

\* C14: a read of a key, by buffered_read or read_file, that begins after a
\* write of the key has succeeded and released its guard, succeeds.
C14_ReadBackSucceeds ==
    [][\A t \in Tasks : BReturns(t) /\ seen[t] => bres'[t] = "ok"]_vars

\* C16: buffered_read of a key on which no write call was ever made ends
\* with the not-found error.
C16_NeverWrittenNotFound ==
    [][\A t \in Tasks :
          (BReturns(t) /\ bop[t] = "buffered_read" /\ wrote'[barg[t]] = 0) =>
              bres'[t] = "notfound"]_vars

\* C17: no Bucket call panics.
C17_NoPanic ==
    \A t \in Tasks : bres[t] # "panic"

-----------------------------------------------------------------------------
(* MmapFile (src/src/mmap_file.rs): one handle over one file *)

outsideMmap == <<fmvars, bvars, pvars, rvars>>

Min(a, b) == IF a <= b THEN a ELSE b
Max(a, b) == IF a >= b THEN a ELSE b

BufLens == 0..MaxBuf
Offsets == 0..(MaxFile + 1)
SeekKinds == {"Start", "End", "Current"}
SeekArgs == (0 - 1)..(MaxFile + 1)

\* What callers pass to MmapOpenOptions: MmapFile::open (read only); the
\* options of test_mmap; read and write together.
OpenOpts ==
    {[read |-> TRUE, write |-> FALSE, create |-> FALSE, truncate |-> FALSE],
     [read |-> FALSE, write |-> TRUE, create |-> TRUE, truncate |-> TRUE],
     [read |-> TRUE, write |-> TRUE, create |-> TRUE, truncate |-> FALSE]}

\* The file may exist already, with some content.
InitMmapOnly ==
    /\ worker = [t \in Tasks |-> t]
    /\ scope = [t \in Tasks |-> {"a"}]
    /\ InitFileMap
    /\ InitBucket
    /\ fexists = [k \in Keys |-> FALSE]
    /\ InitHandle
    /\ InitPoll
    /\ InitReader
    /\ fileThere \in BOOLEAN
    /\ flen \in (IF fileThere THEN 0..MaxFile ELSE {0})
    /\ overflowChecks \in BOOLEAN

\* What a call gives back: a result, a byte count, and the cursor it leaves.
Outcome(r, n, off) == [res |-> r, n |-> n, off |-> off]

\* poll_read with the cursor at off, a mapping of len bytes over a file of
\* fl bytes, and rem bytes of room in the buffer.  The subtraction
\* self.m.len() - self.offset panics on overflow or wraps; after a wrap the
\* slice self.m[off..off + l] is out of range and panics.  Bytes of the
\* mapping past the end of the file read as zeros while they share a page
\* with the file's last byte, and raise SIGBUS otherwise.
PollRead(off, len, rem, fl) ==
    LET avail == (len - off) % UsizeMod
        l == Min(Min(rem, avail), PAGE_SIZE)
    IN  IF off > len /\ overflowChecks THEN {Outcome("panic", 0, off)}
        ELSE IF off + l > len THEN {Outcome("panic", 0, off)}
        ELSE IF l = 0 \/ off + l <= fl THEN {Outcome("ok", l, off + l)}
        ELSE IF fl = 0 THEN {Outcome("sigbus", 0, off)}
        ELSE {Outcome("ok", l, off + l), Outcome("sigbus", 0, off)}

\* start_seek: the three arms, each with its range check.
StartSeek(kind, d, off, len) ==
    LET pos == IF kind = "Start" THEN d
               ELSE IF kind = "End" THEN len + d
               ELSE off + d
    IN  IF pos < 0 \/ pos > len
        THEN Outcome("invalid", 0, off)
        ELSE Outcome("ok", pos, pos)

\* seek(Start(o)), read(buf), seek back: what read_at is documented to be.
SeekReadRestore(n, o) ==
    LET s == StartSeek("Start", o, offset, mlen)
    IN  IF s.res # "ok" THEN {Outcome(s.res, 0, offset)}
        ELSE {Outcome(r.res, r.n, IF r.res = "ok" THEN offset ELSE r.off) :
                 r \in PollRead(s.off, mlen, n, flen)}

\* The loop of write_to: read a page at a time until a read returns 0,
\* then seek(Start(0)).
RECURSIVE WriteToLoop(_, _)
WriteToLoop(off, total) ==
    UNION {IF r.res # "ok" THEN {r}
           ELSE IF r.n = 0 THEN {Outcome("ok", total, 0)}
           ELSE WriteToLoop(r.off, total + r.n) :
              r \in PollRead(off, mlen, PAGE_SIZE, flen)}

\* The call returned (or unwound with) r.
MReturn(r) ==
    /\ mres' = r.res
    /\ mn' = r.n
    /\ offset' = r.off
    /\ hstate' = IF r.res \in {"panic", "sigbus"} THEN "dead" ELSE "open"

\* MmapOpenOptions::open: the operating system opens (creates, truncates)
\* the file, then from_file maps it, which needs a readable descriptor,
\* and builds the handle with write: false.
MOpen(o) ==
    /\ mcall' = "open"
    /\ hstate = "none"
    /\ LET found == fileThere \/ o.create
           len == IF ~fileThere \/ o.truncate THEN 0 ELSE flen
           mapped == found /\ o.read
       IN  /\ fileThere' = found
           /\ flen' = IF found THEN len ELSE flen
           /\ hstate' = IF mapped THEN "open" ELSE "none"
           /\ mlen' = IF mapped THEN len ELSE 0
           /\ reqWrite' = (mapped /\ (o.write \/ o.create))
           /\ mres' = IF ~found THEN "notfound" ELSE IF ~o.read THEN "perm" ELSE "ok"
    /\ write' = FALSE
    /\ offset' = 0
    /\ fpos' = 0
    /\ mn' = 0
    /\ UNCHANGED <<outsideMmap, clones, overflowChecks>>

\* While the handle is open the path is opened again with write(true) and
\* truncate(true): the file is cut to nothing before from_file runs.
OpenTruncate ==
    /\ hstate = "open"
    /\ fileThere
    /\ flen > 0
    /\ flen' = 0
    /\ UNCHANGED <<outsideMmap, hstate, write, offset, mlen, reqWrite, clones, fileThere,
                   fpos, mres, mn, mcall, overflowChecks>>

\* The handle (dead or alive) is dropped.
MDrop ==
    /\ mcall' = "none"
    /\ hstate \in {"open", "dead"}
    /\ clones = 0
    /\ hstate' = "none"
    /\ write' = FALSE
    /\ offset' = 0
    /\ mlen' = 0
    /\ reqWrite' = FALSE
    /\ fpos' = 0
    /\ mres' = "none"
    /\ mn' = 0
    /\ UNCHANGED <<outsideMmap, clones, fileThere, flen, overflowChecks>>

\* #[derive(Clone)]: the clone shares f and m.
MClone ==
    /\ hstate = "open"
    /\ clones < MaxClones
    /\ clones' = clones + 1
    /\ UNCHANGED <<outsideMmap, hstate, write, offset, mlen, reqWrite, fileThere, flen,
                   fpos, mres, mn, mcall, overflowChecks>>

MDropClone ==
    /\ clones > 0
    /\ clones' = clones - 1
    /\ UNCHANGED <<outsideMmap, hstate, write, offset, mlen, reqWrite, fileThere, flen,
                   fpos, mres, mn, mcall, overflowChecks>>

\* AsyncReadExt::read: one poll_read.
MRead(n) ==
    /\ mcall' = "read"
    /\ hstate = "open"
    /\ \E r \in PollRead(offset, mlen, n, flen) : MReturn(r)
    /\ UNCHANGED <<outsideMmap, write, mlen, reqWrite, clones, fileThere, flen, fpos,
                   overflowChecks>>

\* read_at: the cursor is set to the offset as given, the read runs, and the
\* cursor is put back when the read returned.
MReadAt(n, o) ==
    /\ mcall' = "read_at"
    /\ hstate = "open"
    /\ \E r \in PollRead(o, mlen, n, flen) :
          MReturn(Outcome(r.res, r.n, IF r.res = "ok" THEN offset ELSE r.off))
    /\ UNCHANGED <<outsideMmap, write, mlen, reqWrite, clones, fileThere, flen, fpos,
                   overflowChecks>>

\* AsyncSeekExt::seek: start_seek, then poll_complete, which moves the
\* descriptor too when the handle writes and is not shared.
MSeek(kind, d) ==
    /\ mcall' = "seek"
    /\ hstate = "open"
    /\ kind = "Start" => d >= 0
    /\ LET s == StartSeek(kind, d, offset, mlen)
       IN  /\ MReturn(s)
           /\ fpos' = IF s.res = "ok" /\ write /\ clones = 0 THEN s.off ELSE fpos
    /\ UNCHANGED <<outsideMmap, write, mlen, reqWrite, clones, fileThere, flen,
                   overflowChecks>>

\* AsyncWriteExt::write: one poll_write.
MWrite(n) ==
    /\ mcall' = "write"
    /\ hstate = "open"
    /\ fpos + n <= MaxFile
    /\ IF ~write
       THEN MReturn(Outcome("perm", 0, offset)) /\ UNCHANGED <<flen, fpos>>
       ELSE IF clones > 0
       THEN MReturn(Outcome("other", 0, offset)) /\ UNCHANGED <<flen, fpos>>
       ELSE /\ MReturn(Outcome("ok", n, offset))
            /\ flen' = Max(flen, fpos + n)
            /\ fpos' = fpos + n
    /\ UNCHANGED <<outsideMmap, write, mlen, reqWrite, clones, fileThere, overflowChecks>>

\* write_at: refused on a handle that does not write; else seek, write,
\* seek back.
MWriteAt(n, o) ==
    /\ mcall' = "write_at"
    /\ hstate = "open"
    /\ o + n <= MaxFile
    /\ LET s == StartSeek("Start", o, offset, mlen)
       IN  IF ~write
           THEN MReturn(Outcome("perm", 0, offset)) /\ UNCHANGED <<flen, fpos>>
           ELSE IF s.res # "ok"
           THEN MReturn(Outcome("invalid", 0, offset)) /\ UNCHANGED <<flen, fpos>>
           ELSE IF clones > 0
           THEN MReturn(Outcome("other", 0, offset)) /\ UNCHANGED <<flen, fpos>>
           ELSE /\ MReturn(Outcome("ok", n, offset))
                /\ flen' = Max(flen, o + n)
                /\ fpos' = offset
    /\ UNCHANGED <<outsideMmap, write, mlen, reqWrite, clones, fileThere, overflowChecks>>

\* write_to, into a writer that takes everything.
MWriteTo ==
    /\ mcall' = "write_to"
    /\ hstate = "open"
    /\ \E r \in WriteToLoop(offset, 0) : MReturn(r)
    /\ UNCHANGED <<outsideMmap, write, mlen, reqWrite, clones, fileThere, flen, fpos,
                   overflowChecks>>

\* reload_mmap: the file as it is now is mapped again; the cursor stays.
MReload ==
    /\ mcall' = "reload_mmap"
    /\ hstate = "open"
    /\ mlen' = flen
    /\ MReturn(Outcome("ok", 0, offset))
    /\ UNCHANGED <<outsideMmap, write, reqWrite, clones, fileThere, flen, fpos,
                   overflowChecks>>

\* AsyncWriteExt::flush: poll_flush, which ends in reload_mmap.
MFlush ==
    /\ mcall' = "flush"
    /\ hstate = "open"
    /\ IF ~write
       THEN MReturn(Outcome("perm", 0, offset)) /\ UNCHANGED mlen
       ELSE IF clones > 0
       THEN MReturn(Outcome("other", 0, offset)) /\ UNCHANGED mlen
       ELSE MReturn(Outcome("ok", 0, offset)) /\ mlen' = flen
    /\ UNCHANGED <<outsideMmap, write, reqWrite, clones, fileThere, flen, fpos,
                   overflowChecks>>

MmapNext ==
    \/ \E o \in OpenOpts : MOpen(o)
    \/ OpenTruncate
    \/ MDrop
    \/ MClone
    \/ MDropClone
    \/ \E n \in BufLens : MRead(n)
    \/ \E n \in BufLens, o \in Offsets : MReadAt(n, o)
    \/ \E kind \in SeekKinds, d \in SeekArgs : MSeek(kind, d)
    \/ \E n \in BufLens : MWrite(n)
    \/ \E n \in BufLens, o \in Offsets : MWriteAt(n, o)
    \/ MWriteTo
    \/ MReload
    \/ MFlush

MmapSpec == InitMmapOnly /\ [][MmapNext]_vars

-----------------------------------------------------------------------------
(* C15, C19, C20: the MmapFile handle *)

\* C15: a handle opened through MmapFile::options() with write(true) or
\* create(true) is write-capable: a write through it succeeds.
C15_WriteSucceeds ==
    [][\A n \in BufLens : (MWrite(n) /\ reqWrite) => mres' = "ok"]_vars

\* C19: the cursor of a live handle is never beyond the mapping's length.
C19_CursorInRange == hstate = "open" => (0 <= offset /\ offset <= mlen)

\* C20: read_at(buf, o) ends as seek(Start(o)), read(buf), seek back would:
\* the same result and byte count, and the cursor where it was.
C20_ReadAtIsSeekRead ==
    [][\A n \in BufLens, o \in Offsets :
          MReadAt(n, o) => Outcome(mres', mn', offset') \in SeekReadRestore(n, o)]_vars

-----------------------------------------------------------------------------
(* Raw positional reads and writes (src/src/locked_file.rs, src/src/file.rs) *)

outsidePoll == <<fmvars, bvars, mvars, rvars>>

RawOps == {"LockedFileRead::poll_read", "File::poll_read", "File::poll_write"}

InitPollOnly ==
    /\ worker = [t \in Tasks |-> t]
    /\ scope = [t \in Tasks |-> {"a"}]
    /\ InitFileMap
    /\ InitBucket
    /\ fexists = [k \in Keys |-> FALSE]
    /\ InitMmap
    /\ InitPoll
    /\ InitReader

\* Task t awaits a read or a write on its handle: the executor polls the
\* future a first time.
IoCall(t, o) ==
    /\ ipc[t] = "idle"
    /\ ipc' = [ipc EXCEPT ![t] = "runnable"]
    /\ iop' = [iop EXCEPT ![t] = o]
    /\ ires' = [ires EXCEPT ![t] = "none"]
    /\ UNCHANGED <<outsidePoll, fdReady, waker>>

\* The executor polls t: pread64 / pwrite runs.  A result, or an error
\* other than would-block, is returned as Poll::Ready.  On would-block
\* (EAGAIN, for poll_write also EINTR) the poll returns Poll::Pending; the
\* Context is not used, so no waker is registered.
IoPoll(t) ==
    /\ ipc[t] = "runnable"
    /\ IF fdReady[t]
       THEN /\ ipc' = [ipc EXCEPT ![t] = "done"]
            /\ \E r \in {"ok", "err"} : ires' = [ires EXCEPT ![t] = r]
       ELSE /\ ipc' = [ipc EXCEPT ![t] = "pending"]
            /\ UNCHANGED ires
    /\ waker' = [waker EXCEPT ![t] = FALSE]
    /\ UNCHANGED <<outsidePoll, iop, fdReady>>

\* The descriptor of t's handle becomes ready; the reactor wakes the task
\* whose waker it holds.
FdBecomesReady(t) ==
    /\ ~fdReady[t]
    /\ fdReady' = [fdReady EXCEPT ![t] = TRUE]
    /\ ipc' = [ipc EXCEPT ![t] = IF waker[t] /\ ipc[t] = "pending" THEN "runnable" ELSE @]
    /\ waker' = [waker EXCEPT ![t] = FALSE]
    /\ UNCHANGED <<outsidePoll, iop, ires>>

\* The next pread64 / pwrite on t's descriptor would block.
FdBlocks(t) ==
    /\ fdReady[t]
    /\ ipc[t] \in {"idle", "runnable"}
    /\ fdReady' = [fdReady EXCEPT ![t] = FALSE]
    /\ UNCHANGED <<outsidePoll, ipc, iop, ires, waker>>

\* The caller has its result and goes on.
IoFinish(t) ==
    /\ ipc[t] = "done"
    /\ ipc' = [ipc EXCEPT ![t] = "idle"]
    /\ iop' = [iop EXCEPT ![t] = "none"]
    /\ ires' = [ires EXCEPT ![t] = "none"]
    /\ UNCHANGED <<outsidePoll, fdReady, waker>>

PollNext ==
    \E t \in Tasks :
        \/ \E o \in RawOps : IoCall(t, o)
        \/ IoPoll(t)
        \/ FdBecomesReady(t)
        \/ FdBlocks(t)
        \/ IoFinish(t)

\* The executor polls every task that is runnable.
PollSpec == InitPollOnly /\ [][PollNext]_vars /\ \A t \in Tasks : WF_vars(IoPoll(t))

-----------------------------------------------------------------------------
(* C18: would-block liveness *)

\* C18: a read or write that met would-block and whose descriptor is ready
\* from some point on is polled again and completes.
C18_WokenWhenReady ==
    \A t \in Tasks : []((ipc[t] = "pending" /\ []fdReady[t]) => <>(ipc[t] = "done"))

-----------------------------------------------------------------------------
(* C21: write_to *)

\* C21: wherever the cursor is when it is called, a write_to that succeeds
\* has copied the whole mapping (its total is the mapping's length) and
\* leaves the cursor at 0.
C21_WriteToCopiesAll ==
    [][(MWriteTo /\ mres' = "ok") => (mn' = mlen /\ offset' = 0)]_vars

-----------------------------------------------------------------------------
(* C22: operations on different keys *)

\* Two tasks work on one key while a third works on another key and on a
\* child name; the directory holds a file for either key.
InitTwoKeys ==
    /\ worker = [t \in Tasks |-> t]
    /\ scope = [t \in Tasks |-> IF t <= 2 THEN {"k"} ELSE {"j", "x"}]
    /\ InitFileMap
    /\ InitBucket
    /\ InitMmap
    /\ InitPoll
    /\ InitReader
    /\ fexists = [k \in Keys |-> TRUE]

TwoKeySpec == InitTwoKeys /\ [][BucketNext]_vars

\* Task t stands before self.files.write().await.
NeedsTableWrite(t) == bpc[t] \in {"bw1", "wf1", "gf3"}

\* Task u waits inside get_fd for a key lock that a writer holds, and holds
\* self.files.read() meanwhile.
WaitsOnKeyLock(u) == bpc[u] = "gf_wait" /\ ~CanRead(barg[u], lk[u])

\* C22: no operation on a key is kept waiting by a lock on another key: no
\* task stands before the lock table while a task that waits for another
\* key's lock keeps the table locked.
C22_KeysIndependent ==
    \A t, u \in Tasks :
        ~(NeedsTableWrite(t) /\ WaitsOnKeyLock(u) /\ barg[t] # barg[u])

-----------------------------------------------------------------------------
(* C23, C25: the lock of a key *)

\* C23: the lock object that the table holds for a key, once made, is never
\* replaced or removed.
C23_LockNeverReplaced ==
    [][\A k \in Keys : locks[k] # 0 => locks'[k] = locks[k]]_vars

-----------------------------------------------------------------------------
(* C24: dropping a Writer *)

\* C24: the drop of the Writer of a path clears the writer-active flag of
\* that path and leaves the flags of all other paths and the whole cache as
\* they were.
C24_DropClearsOnlyFlag ==
    [][\A t \in Tasks :
          Returns(t, "drop_writer", "ok") =>
              /\ ~wflag'[tpath[t]]
              /\ \A p \in Paths \ {tpath[t]} : wflag'[p] = wflag[p]
              /\ cache' = cache]_vars

\* A Writer has been dropped while the Writer of another path is out.
C24_Witness ==
    \E t \in Tasks :
        /\ Returned(t, "drop_writer", "ok")
        /\ ~wflag[tpath[t]]
        /\ \E p \in Paths \ {tpath[t]} : wflag[p] /\ WriterOut(p)

\* A step of task t that does file I/O on its key: File::open, File::create,
\* the open and fcntl of get_fd, the body's reads and writes.
FileIo(t) ==
    \/ BrOpen(t) \/ BrBody(t)
    \/ BwCreate(t) \/ BwBody(t)
    \/ WfCreate(t)
    \/ GfInstall(t)

\* C25: a Bucket operation does file I/O on a key only while it holds a
\* guard of the key's lock.
C25_LockBeforeIo ==
    [][\A t \in Tasks : FileIo(t) => held[t].key = barg[t]]_vars

-----------------------------------------------------------------------------
(* The bytes of raw positional reads (src/src/locked_file.rs, src/src/file.rs) *)

outsideReader == <<fmvars, bvars, mvars, pvars>>

InitReaderOnly ==
    /\ worker = [t \in Tasks |-> t]
    /\ scope = [t \in Tasks |-> {"a"}]
    /\ InitFileMap
    /\ InitBucket
    /\ fexists = [k \in Keys |-> FALSE]
    /\ InitMmap
    /\ InitPoll
    /\ rkind = "none"
    /\ index = 0
    /\ rlen \in 0..MaxFile
    /\ rbuf = 0
    /\ rgot = 0
    /\ rrep = 0
    /\ rres = "none"

\* LockedFileRead::new, File::open: a fresh stream, index 0.
ROpen(kind) ==
    /\ rkind = "none"
    /\ rkind' = kind
    /\ index' = 0
    /\ rbuf' = 0
    /\ rgot' = 0
    /\ rrep' = 0
    /\ rres' = "none"
    /\ UNCHANGED <<outsideReader, rlen>>

\* The reader is dropped (also after a panic unwound through it).
RDrop ==
    /\ rkind # "none"
    /\ rkind' = "none"
    /\ index' = 0
    /\ rbuf' = 0
    /\ rgot' = 0
    /\ rrep' = 0
    /\ rres' = "none"
    /\ UNCHANGED <<outsideReader, rlen>>

\* pread64(fd, buf, want, at) on a file of len bytes: the bytes it returns.
Pread(want, at, len) == Min(want, Max(0, len - at))

\* AsyncReadExt::read(buf) with a buffer of b bytes: a ReadBuf over buf with
\* nothing filled, one poll_read.  pread64 returns n bytes at index; then
\* self.index += n, buf.assume_init(n), buf.set_filled(self.index).
\* set_filled panics when its argument exceeds the initialized length, which
\* is b; otherwise the caller is told that self.index bytes were read.
RawRead(b) ==
    /\ rkind # "none"
    /\ rres # "panic"
    /\ LET want == IF rkind = "File" THEN Min(b, FileReadMax) ELSE b
           n == Pread(want, index, rlen)
       IN  /\ rbuf' = b
           /\ rgot' = n
           /\ index' = index + n
           /\ IF index + n > b
              THEN rres' = "panic" /\ rrep' = 0
              ELSE rres' = "ok" /\ rrep' = index + n
    /\ UNCHANGED <<outsideReader, rkind, rlen>>

\* File::start_seek(SeekFrom::Start(o)): the offset is taken as given.
RawSeek(o) ==
    /\ rkind = "File"
    /\ rres # "panic"
    /\ index' = o
    /\ rbuf' = 0
    /\ rgot' = 0
    /\ rrep' = 0
    /\ rres' = "none"
    /\ UNCHANGED <<outsideReader, rkind, rlen>>

ReaderNext ==
    \/ \E kind \in {"LockedFileRead", "File"} : ROpen(kind)
    \/ RDrop
    \/ \E b \in 1..MaxBuf : RawRead(b)
    \/ \E o \in Offsets : RawSeek(o)

ReaderSpec == InitReaderOnly /\ [][ReaderNext]_vars

-----------------------------------------------------------------------------
(* C26: what a raw read reports *)

\* C26: a read call that succeeds reports to its caller exactly the bytes
\* that its pread64 returned.
C26_ReportsBytesRead == rres = "ok" => rrep = rgot

-----------------------------------------------------------------------------
(* C27: the registry's table locks *)

\* Task t is inside a call that waits for no other caller: get, try_writer,
\* remove and the drop of a Writer never loop.
InPlainCall(t) ==
    /\ op[t] \in {"get", "try_writer", "remove", "drop_writer"}
    /\ pc[t] \notin {"idle", "ret"}

\* C27: every get, try_writer, remove and Writer drop that has begun returns:
\* no task waits for ever on the files or the writers mutex.
C27_PlainCallsReturn ==
    \A t \in Tasks : InPlainCall(t) ~> (pc[t] = "ret")

====
